---- MODULE Spec2Model ----
(***************************************************************************)
(* Streaming session core of the driver-drowsiness backend:                *)
(* machineapi/consumers.py (VideoAnalysisConsumer) and the inference       *)
(* service singleton of machineapi/openai_service.py.                      *)
(*                                                                         *)
(* One consumer instance exists per WebSocket connection.  The consumer's  *)
(* handlers (connect, receive, disconnect) are coroutines that the         *)
(* framework runs one at a time per connection: receive awaits             *)
(* process_frame, which awaits analyze_frame, so the next queued event of  *)
(* the connection is handled only after the handler has returned.  The     *)
(* only suspension point that lasts is the inference call; the model       *)
(* splits process_frame there.                                             *)
(***************************************************************************)
EXTENDS Integers, Sequences, FiniteSets

\* ---------------------------------------------------------------- bounds
NumSessions == 2
MaxEvents == 3
MaxInbox == 1
MaxInterval == 2
MaxProse == 1

Sessions == 1..NumSessions

\* Values a client puts in the "interval" field of a configure message.
Intervals == (-1)..MaxInterval

\* ---------------------------------------------------- inbound messages
\* Text payloads, by what json.loads and data.get make of them.
\*   empty     : ""                      (falsy text_data)
\*   garbage   : not JSON                (json.loads raises JSONDecodeError)
\*   other     : JSON object whose "type" is not "configure"
\*   configure : {"type": "configure"} with or without "interval"
TextMessages ==
    { [kind |-> "text", body |-> b, has_interval |-> FALSE, interval |-> 0] :
        b \in {"empty", "garbage", "other", "configure"} }
    \cup
    { [kind |-> "text", body |-> "configure", has_interval |-> TRUE, interval |-> i] :
        i \in Intervals }

\* Binary payloads: an empty buffer (falsy bytes_data) or a frame.
BinaryMessages ==
    { [kind |-> "bytes", body |-> b, has_interval |-> FALSE, interval |-> 0] :
        b \in {"empty", "frame"} }

ClientMessages == TextMessages \cup BinaryMessages

\* The transport's disconnect event, queued behind the messages already received.
DisconnectEvent == [kind |-> "disconnect", body |-> "", has_interval |-> FALSE, interval |-> 0]

\* What happens inside analyze_frame for a submitted frame: the remote call
\* returns content ("ok"), Image.open raises on bytes that are not an image
\* ("DecodeError"), or client.chat.completions.create raises ("APIError": the
\* connection, authentication and rate-limit errors all leave that one call).
Failures == {"DecodeError", "APIError"}
Outcomes == {"ok"} \cup Failures

None == "None"

VARIABLES
    openai_analysis_service,  \* module-level singleton: None or "service"
    constructions,            \* how many times the service constructor completed
    analysis_service,         \* per consumer: None or "service"
    frame_count,              \* per consumer
    analysis_interval,        \* per consumer
    last_analysis_result,     \* per consumer: NoResult or a result record
    conn,                     \* per consumer: "connecting", "open", "closed"
    linkUp,                   \* per connection: the transport is connected
    inbox,                    \* per connection: events received, not yet handled
    inflight,                 \* per consumer: frame numbers whose inference call is outstanding
    stalled,                  \* per consumer: the outstanding call will never return
    sent,                     \* per connection: messages the consumer has sent, in order
    sentAtClose,              \* per connection: Len(sent) when the transport went down, or -1
    submitted,                \* per consumer: frame numbers handed to analyze_frame, in order
    received,                 \* per consumer: number of non-empty binary messages handled
    msgs,                     \* inbound events so far, all connections (bounds the model)
    content,                  \* the content handed to a service's parsing steps
    parsed_by,                \* "none", or the service whose steps produced norm_result
    norm_result               \* the result those steps returned

vars == << openai_analysis_service, constructions, analysis_service, frame_count,
           analysis_interval, last_analysis_result, conn, linkUp, inbox, inflight,
           stalled, sent, sentAtClose, submitted, received, msgs,
           content, parsed_by, norm_result >>

session_vars == << openai_analysis_service, constructions, analysis_service, frame_count,
                   analysis_interval, last_analysis_result, conn, linkUp, inbox, inflight,
                   stalled, sent, sentAtClose, submitted, received, msgs >>
norm_vars == << content, parsed_by, norm_result >>

\* ------------------------------------------------------ outbound messages
ConnectionEstablished == [type |-> "connection_established", status |-> "ready"]
ConnectionError(reason) == [type |-> "connection_error", status |-> "error", message |-> reason]
ConfigurationAcknowledged(i) == [type |-> "configuration_acknowledged", interval |-> i]
FrameReceived(n) == [type |-> "frame_received", frame_number |-> n, analyzed |-> FALSE]
Processing(n) == [type |-> "processing", frame_number |-> n]
AnalysisResult(n, r) == [type |-> "analysis_result", frame_number |-> n, data |-> r]
AnalysisError(n, e) == [type |-> "analysis_error", frame_number |-> n, error |-> e]
ErrorMessage(m) == [type |-> "error", message |-> m]

\* ------------------------------------------------------------- helpers
\* Variant of Append1 that delivers to every session, as a send to a group all
\* consumers had joined would.
Append1_broadcast(f, s, m) == [t \in DOMAIN f |-> Append(f[t], m)]

Append1(f, s, m) == [f EXCEPT ![s] = Append(@, m)]
AppendAll(f, s, ms) == [f EXCEPT ![s] = @ \o ms]

\* openai_service.py: OpenAIVideoAnalysisService.__init__ raises ValueError when
\* no API key is found; key_present is what os.getenv yields at that call.
ConstructorRaises(key_present) == ~key_present

\* Variant of get_openai_video_analysis_service without the None test: every
\* call constructs.
get_openai_video_analysis_service_fresh(singleton, key_present) ==
    IF ConstructorRaises(key_present)
    THEN [service |-> singleton, built |-> FALSE, raised |-> TRUE]
    ELSE [service |-> "service", built |-> TRUE, raised |-> FALSE]

\* openai_service.py: get_openai_video_analysis_service.  The singleton is
\* built on first use and returned as it is afterwards; a raising constructor
\* leaves it unset.  Yields the singleton's next value, whether a constructor
\* completed, and whether the call raised.
get_openai_video_analysis_service(singleton, key_present) ==
    IF singleton = None
    THEN IF ConstructorRaises(key_present)
         THEN [service |-> None, built |-> FALSE, raised |-> TRUE]
         ELSE [service |-> "service", built |-> TRUE, raised |-> FALSE]
    ELSE [service |-> singleton, built |-> FALSE, raised |-> FALSE]

\* consumers.py line 26: last_analysis_result before any analysis (None).
NoResult ==
    [error |-> "", drowsiness_level |-> None, confidence |-> 0,
     observations |-> None, recommended_action |-> None]

\* openai_service.py lines 135-142: the result analyze_frame builds in its
\* outer except clause (confidence in percent).
ErrorResult(e) ==
    [error |-> e, drowsiness_level |-> "unknown", confidence |-> 0,
     observations |-> "Analysis failed", recommended_action |-> "Check API connection and try again"]

\* openai_service.py lines 126-131: the result built when the content holds no
\* pair of braces.
FallbackResult ==
    [error |-> "", drowsiness_level |-> "unknown", confidence |-> 0,
     observations |-> "Failed to parse analysis", recommended_action |-> "Manual review required"]

\* groq_service.py lines 125-130 and 135-141: the two results of the Groq
\* service's analyze_frame.
GroqFallbackResult ==
    [error |-> "", drowsiness_level |-> "awake", confidence |-> 80,
     observations |-> "Frame captured successfully", recommended_action |-> "Continue monitoring"]

GroqErrorResult(e) ==
    [error |-> e, drowsiness_level |-> "unknown", confidence |-> 0,
     observations |-> "Failed to analyze frame", recommended_action |-> "Check system connection"]

\* ------------------------------------------------- the model's content
\* Content is a sequence of symbols.  "{", "}", " ", the backtick (written
\* "bt") and the letters of the tag are single characters; "x" is a character
\* of prose; a body symbol
\* stands for the run of characters between the braces of an object (no brace,
\* no backtick in it): a well-formed member list, or "B_bad", a malformed one.
Bodies == {"B_ok", "B_level", "B_conf"}
Fence == << "bt", "bt", "bt" >>
Tag == << "j", "s", "o", "n" >>
Prose(k) == [i \in 1..k |-> "x"]

\* json.loads on a member list: the dict it yields, as returned to the caller.
\* B_ok carries a level of the prompt and a confidence in range, B_level a
\* level string outside the enumeration, B_conf a confidence of 1.5.
parse_body(b) ==
    [error |-> "",
     drowsiness_level |-> IF b = "B_level" THEN "sleepy" ELSE "awake",
     confidence |-> IF b = "B_conf" THEN 150 ELSE 90,
     observations |-> "model", recommended_action |-> "model"]

RECURSIVE lstrip(_)
lstrip(c) == IF c # << >> /\ Head(c) = " " THEN lstrip(Tail(c)) ELSE c

RECURSIVE rstrip(_)
rstrip(c) ==
    IF c # << >> /\ c[Len(c)] = " " THEN rstrip(SubSeq(c, 1, Len(c) - 1)) ELSE c

\* str.strip()
strip(c) == rstrip(lstrip(c))

\* str.startswith(p)
startswith(c, p) == Len(c) >= Len(p) /\ SubSeq(c, 1, Len(p)) = p

\* c[a:-b] for a, b >= 0 (Python slice: empty when nothing is left).
slice_ends(c, a, b) ==
    IF a + 1 > Len(c) - b THEN << >> ELSE SubSeq(c, a + 1, Len(c) - b)

\* str.find(ch) and str.rfind(ch): 0-based position, -1 when absent.
find(c, ch) ==
    IF \E i \in 1..Len(c) : c[i] = ch
    THEN (CHOOSE i \in 1..Len(c) : c[i] = ch /\ \A j \in 1..(i - 1) : c[j] # ch) - 1
    ELSE -1

rfind(c, ch) ==
    IF \E i \in 1..Len(c) : c[i] = ch
    THEN (CHOOSE i \in 1..Len(c) : c[i] = ch /\ \A j \in (i + 1)..Len(c) : c[j] # ch) - 1
    ELSE -1

\* json.loads(c): surrounding whitespace is skipped; of the strings over the
\* symbols above the JSON documents are the objects "{" body "}" with a
\* well-formed member list.  Anything else raises JSONDecodeError.
json_loads(c) ==
    LET d == strip(c)
    IN  IF Len(d) = 3 /\ d[1] = "{" /\ d[2] \in Bodies /\ d[3] = "}"
        THEN [ok |-> TRUE, value |-> parse_body(d[2])]
        ELSE [ok |-> FALSE, value |-> NoResult]

\* Variant of brace_slice that leaves the closing brace out (end = rfind of the brace, without the + 1).
brace_slice_open(c) ==
    LET start == find(c, "{")
        end == rfind(c, "}")
    IN  IF start + 1 > end THEN << >> ELSE SubSeq(c, start + 1, end)

\* openai_service.py lines 121-124 (groq_service.py lines 120-123):
\* content[start:end], start = find of the opening brace, end = rfind of the
\* closing brace + 1.
brace_slice(c) ==
    LET start == find(c, "{")
        end == rfind(c, "}") + 1
    IN  IF start + 1 > end THEN << >> ELSE SubSeq(c, start + 1, end)

\* openai_service.py lines 114-142: from the content to the returned result.
\* The second json.loads runs inside the except clause of the first; when it
\* raises, the outer except clause builds the error result.
normalize_openai(c) ==
    IF json_loads(c).ok
    THEN json_loads(c).value
    ELSE IF find(c, "{") # -1 /\ rfind(c, "}") + 1 # 0
         THEN IF json_loads(brace_slice(c)).ok
              THEN json_loads(brace_slice(c)).value
              ELSE ErrorResult("JSONDecodeError")
         ELSE FallbackResult

\* groq_service.py lines 107-113: strip, then cut a leading fence (with or
\* without the json tag) and three trailing characters.
groq_unfence(c) ==
    LET d == strip(c)
    IN  IF startswith(d, Fence \o Tag) THEN slice_ends(d, 7, 3)
        ELSE IF startswith(d, Fence) THEN slice_ends(d, 3, 3)
        ELSE d

\* groq_service.py lines 107-141: from the content to the returned result.
normalize_groq(c) ==
    LET d == groq_unfence(c)
    IN  IF json_loads(d).ok
        THEN json_loads(d).value
        ELSE IF find(d, "{") # -1 /\ rfind(d, "}") + 1 # 0
             THEN IF json_loads(brace_slice(d)).ok
                  THEN json_loads(brace_slice(d)).value
                  ELSE GroqErrorResult("JSONDecodeError")
             ELSE GroqFallbackResult

\* The contents tried: a prefix, a core and a suffix.
Prefixes ==
    { << >>, << " " >>, Fence, Fence \o Tag, Fence \o Tag \o << " " >> }
    \cup { Prose(k) : k \in 1..MaxProse }
Cores ==
    { << >>, << "x" >>, << "{", "B_bad", "}" >> }
    \cup { << "{", b, "}" >> : b \in Bodies }
    \cup { << "{", b >> : b \in Bodies }
Suffixes ==
    { << >>, << " " >>, Fence, << " " >> \o Fence, << "x" >>, << "}" >> }
Contents == { p \o c \o q : p \in Prefixes, c \in Cores, q \in Suffixes }

\* The result parsed from well-formed content.
ParsedResult == normalize_openai(<< "{", "B_ok", "}" >>)

\* The contents the remote call returns to a session: a well-formed object,
\* and one whose confidence is 1.5.
SessionContents == { << "{", "B_ok", "}" >>, << "{", "B_conf", "}" >> }

\* openai_service.py: analyze_frame.  Every exception raised while decoding
\* the image or calling the remote API is caught by the outer except clause and
\* turned into a result; returned content goes through the parsing steps;
\* nothing is raised to the caller.
analyze_frame(outcome, c) ==
    IF outcome \in Failures
    THEN [raised |-> FALSE, exc |-> "", result |-> ErrorResult(outcome)]
    ELSE [raised |-> FALSE, exc |-> "", result |-> normalize_openai(c)]

\* Variant of Sampled that counts from the first frame (frames 1, n+1, ...).
Sampled_from_first(count, interval) ==
    IF interval > 0 THEN (count - 1) % interval = 0 ELSE (count - 1) % (0 - interval) = 0

\* consumers.py line 77: self.frame_count % self.analysis_interval == 0, with
\* Python's remainder (defined for a negative divisor, raising on zero).
Sampled(count, interval) ==
    IF interval > 0 THEN count % interval = 0 ELSE count % (0 - interval) = 0

\* Variant of configure_interval that ignores the interval sent.
configure_interval_fixed(m) == 1

\* Variant of configure_interval whose default is 2.
configure_interval_default2(m) == IF m.has_interval THEN m.interval ELSE 2

\* consumers.py line 65: data.get("interval", 1).
configure_interval(m) == IF m.has_interval THEN m.interval ELSE 1

\* Variant of HandlerIdle for a receive that would start process_frame as a
\* task of its own instead of awaiting it.
HandlerIdle_spawned(s) == TRUE

\* The connection's handlers run one at a time: receive awaits process_frame
\* (line 78), which awaits analyze_frame (line 110); no handler of the same
\* connection starts while that call is outstanding.
HandlerIdle(s) == inflight[s] = {}

\* Variant of json_error_reply for a receive that drops malformed text silently.
json_error_reply_silent == << >>

\* consumers.py lines 87-91: the reply to text that json.loads rejects.
json_error_reply == << ErrorMessage("Invalid JSON format") >>

\* consumers.py: receive, up to the point where it returns or suspends in
\* analyze_frame.  Yields the new interval and counter, the messages sent, and
\* whether the frame is handed to analyze_frame.
receive_effect(s, m) ==
    LET same == [interval |-> analysis_interval[s], count |-> frame_count[s],
                 out |-> <<>>, call |-> FALSE]
        n == frame_count[s] + 1
    IN  IF m.kind = "text" /\ m.body # "empty"
        THEN CASE m.body = "garbage" ->
                    [same EXCEPT !.out = json_error_reply]
               [] m.body = "configure" ->
                    [same EXCEPT !.interval = configure_interval(m),
                                 !.out = << ConfigurationAcknowledged(configure_interval(m)) >>]
               [] OTHER -> same
        ELSE IF m.kind = "bytes" /\ m.body # "empty"
        THEN IF analysis_interval[s] = 0
             THEN [same EXCEPT !.count = n,
                               !.out = << ErrorMessage("ZeroDivisionError") >>]
             ELSE IF Sampled(n, analysis_interval[s])
             THEN IF analysis_service[s] # None
                  THEN [same EXCEPT !.count = n, !.out = << Processing(n) >>,
                                    !.call = TRUE]
                  ELSE [same EXCEPT !.count = n,
                                    !.out = << Processing(n),
                                               ErrorMessage("Analysis service not initialized") >>]
             ELSE [same EXCEPT !.count = n, !.out = << FrameReceived(n) >>]
        ELSE same

\* ------------------------------------------------------------- the state
SessionInit ==
    /\ openai_analysis_service = None
    /\ constructions = 0
    /\ analysis_service = [s \in Sessions |-> None]
    /\ frame_count = [s \in Sessions |-> 0]
    /\ analysis_interval = [s \in Sessions |-> 1]
    /\ last_analysis_result = [s \in Sessions |-> NoResult]
    /\ conn = [s \in Sessions |-> "connecting"]
    /\ linkUp = [s \in Sessions |-> TRUE]
    /\ inbox = [s \in Sessions |-> <<>>]
    /\ inflight = [s \in Sessions |-> {}]
    /\ stalled = [s \in Sessions |-> FALSE]
    /\ sent = [s \in Sessions |-> <<>>]
    /\ sentAtClose = [s \in Sessions |-> -1]
    /\ submitted = [s \in Sessions |-> <<>>]
    /\ received = [s \in Sessions |-> 0]
    /\ msgs = 0

\* No content is being parsed.
NormIdle ==
    /\ content = << >>
    /\ parsed_by = "none"
    /\ norm_result = NoResult

Init == SessionInit /\ NormIdle

\* Variant of connect_reply that announces the connection before acquiring
\* the service.
connect_reply_established_first(raised) ==
    IF raised
    THEN << ConnectionEstablished, ConnectionError("OPENAI_API_KEY not found") >>
    ELSE << ConnectionEstablished >>

\* consumers.py lines 36-48: what connect sends, by whether acquiring the
\* service raised.
connect_reply(raised) ==
    IF raised
    THEN << ConnectionError("OPENAI_API_KEY not found") >>
    ELSE << ConnectionEstablished >>

\* consumers.py: connect.  Accepts, acquires the service, and reports; on
\* failure it reports the reason and closes the connection.  Session numbers
\* are labels given in the order the connections are made.
connect(s) ==
    /\ conn[s] = "connecting"
    /\ \A r \in Sessions : r < s => conn[r] # "connecting"
    /\ \E key_present \in BOOLEAN :
         LET g == get_openai_video_analysis_service(openai_analysis_service, key_present)
         IN  /\ openai_analysis_service' = g.service
             /\ constructions' = IF g.built THEN constructions + 1 ELSE constructions
             /\ IF g.raised
                THEN /\ sent' = AppendAll(sent, s, connect_reply(TRUE))
                     /\ conn' = [conn EXCEPT ![s] = "closed"]
                     /\ linkUp' = [linkUp EXCEPT ![s] = FALSE]
                     /\ sentAtClose' = [sentAtClose EXCEPT ![s] = Len(sent'[s])]
                     /\ UNCHANGED analysis_service
                ELSE /\ sent' = AppendAll(sent, s, connect_reply(FALSE))
                     /\ conn' = [conn EXCEPT ![s] = "open"]
                     /\ analysis_service' = [analysis_service EXCEPT ![s] = g.service]
                     /\ UNCHANGED << linkUp, sentAtClose >>
    /\ UNCHANGED << frame_count, analysis_interval, last_analysis_result, inbox,
                    inflight, stalled, submitted, received, msgs >>
    /\ UNCHANGED norm_vars

\* The client sends a text or binary message on a connected transport.
client_send(s) ==
    /\ conn[s] = "open"
    /\ linkUp[s]
    /\ msgs < MaxEvents
    /\ Len(inbox[s]) < MaxInbox
    /\ \E m \in ClientMessages : inbox' = Append1(inbox, s, m)
    /\ msgs' = msgs + 1
    /\ UNCHANGED << openai_analysis_service, constructions, analysis_service,
                    frame_count, analysis_interval, last_analysis_result, conn,
                    linkUp, inflight, stalled, sent, sentAtClose, submitted, received >>
    /\ UNCHANGED norm_vars

\* The transport goes down (client close or network loss); the disconnect
\* event is queued behind what was already received.
client_disconnect(s) ==
    /\ conn[s] = "open"
    /\ linkUp[s]
    /\ msgs < MaxEvents
    /\ msgs' = msgs + 1
    /\ linkUp' = [linkUp EXCEPT ![s] = FALSE]
    /\ sentAtClose' = [sentAtClose EXCEPT ![s] = Len(sent[s])]
    /\ inbox' = Append1(inbox, s, DisconnectEvent)
    /\ UNCHANGED << openai_analysis_service, constructions, analysis_service,
                    frame_count, analysis_interval, last_analysis_result, conn,
                    inflight, stalled, sent, submitted, received >>
    /\ UNCHANGED norm_vars

\* consumers.py: receive, and process_frame up to the inference call.  Whether
\* the remote call will ever return is the remote service's choice.
receive(s) ==
    /\ conn[s] = "open"
    /\ HandlerIdle(s)
    /\ inbox[s] # <<>>
    /\ Head(inbox[s]).kind # "disconnect"
    /\ LET m == Head(inbox[s])
           e == receive_effect(s, m)
       IN  /\ inbox' = [inbox EXCEPT ![s] = Tail(@)]
           /\ analysis_interval' = [analysis_interval EXCEPT ![s] = e.interval]
           /\ frame_count' = [frame_count EXCEPT ![s] = e.count]
           /\ sent' = AppendAll(sent, s, e.out)
           /\ inflight' = [inflight EXCEPT ![s] = IF e.call THEN @ \cup {e.count} ELSE @]
           /\ IF e.call
              THEN \E never \in BOOLEAN : stalled' = [stalled EXCEPT ![s] = never]
              ELSE UNCHANGED stalled
           /\ submitted' = [submitted EXCEPT ![s] = IF e.call THEN Append(@, e.count) ELSE @]
           /\ received' = [received EXCEPT ![s] =
                              IF m.kind = "bytes" /\ m.body # "empty" THEN @ + 1 ELSE @]
    /\ UNCHANGED << openai_analysis_service, constructions, analysis_service,
                    last_analysis_result, conn, linkUp, sentAtClose, msgs >>
    /\ UNCHANGED norm_vars

\* consumers.py: process_frame from the return of analyze_frame on.  The
\* frame number reported is self.frame_count as it is at that moment.  Neither
\* the await (line 110) nor the remote call (openai_service.py line 86) carries
\* a timeout: a call that never returns leaves nothing to resume.
process_frame_resume(s) ==
    /\ inflight[s] # {}
    /\ ~stalled[s]
    /\ \E k \in inflight[s], outcome \in Outcomes :
       \E c \in (IF outcome = "ok" THEN SessionContents ELSE { << >> }) :
         LET a == analyze_frame(outcome, c)
         IN  /\ inflight' = [inflight EXCEPT ![s] = @ \ {k}]
             /\ IF a.raised
                THEN /\ sent' = Append1(sent, s, AnalysisError(frame_count[s], a.exc))
                     /\ UNCHANGED last_analysis_result
                ELSE /\ last_analysis_result' = [last_analysis_result EXCEPT ![s] = a.result]
                     /\ sent' = Append1(sent, s, AnalysisResult(frame_count[s], a.result))
    /\ UNCHANGED << openai_analysis_service, constructions, analysis_service,
                    frame_count, analysis_interval, conn, linkUp, inbox, stalled,
                    sentAtClose, submitted, received, msgs >>
    /\ UNCHANGED norm_vars

\* consumers.py: disconnect.  Logs the close code; the consumer then stops.
disconnect(s) ==
    /\ conn[s] = "open"
    /\ HandlerIdle(s)
    /\ inbox[s] # <<>>
    /\ Head(inbox[s]).kind = "disconnect"
    /\ conn' = [conn EXCEPT ![s] = "closed"]
    /\ inbox' = [inbox EXCEPT ![s] = Tail(@)]
    /\ UNCHANGED << openai_analysis_service, constructions, analysis_service,
                    frame_count, analysis_interval, last_analysis_result, linkUp,
                    inflight, stalled, sent, sentAtClose, submitted, received, msgs >>
    /\ UNCHANGED norm_vars

Next ==
    \E s \in Sessions :
        \/ connect(s)
        \/ client_send(s)
        \/ client_disconnect(s)
        \/ receive(s)
        \/ process_frame_resume(s)
        \/ disconnect(s)

Spec == Init /\ [][Next]_vars

\* ------------------------------------------------ the parsing steps alone
\* One content is handed to the parsing steps of one of the two services.
NormInit ==
    /\ SessionInit
    /\ content \in Contents
    /\ parsed_by = "none"
    /\ norm_result = NoResult

parse_openai ==
    /\ parsed_by = "none"
    /\ parsed_by' = "openai"
    /\ norm_result' = normalize_openai(content)
    /\ UNCHANGED content
    /\ UNCHANGED session_vars

parse_groq ==
    /\ parsed_by = "none"
    /\ parsed_by' = "groq"
    /\ norm_result' = normalize_groq(content)
    /\ UNCHANGED content
    /\ UNCHANGED session_vars

NormNext == parse_openai \/ parse_groq

NormSpec == NormInit /\ [][NormNext]_vars

\* The session states of the design, read off the consumer.
State(s) ==
    IF conn[s] = "connecting" THEN "Connecting"
    ELSE IF conn[s] = "closed" \/ ~linkUp[s] THEN "Closed"
    ELSE IF inflight[s] # {} THEN "Processing"
    ELSE "Ready"

\* The event loop runs every handler that can run, and resumes process_frame
\* once its inference call has returned.
LiveSpec ==
    /\ Spec
    /\ \A s \in Sessions :
         /\ WF_vars(connect(s))
         /\ WF_vars(receive(s))
         /\ WF_vars(process_frame_resume(s))
         /\ WF_vars(disconnect(s))

\* ------------------------------------------------------- reading sent
Idx(s) == 1..Len(sent[s])
TypeAt(s, i) == sent[s][i].type
FrameTypes == {"frame_received", "processing", "analysis_result", "analysis_error"}
CompletionTypes == {"analysis_result", "analysis_error"}
IsFrameEvent(m) ==
    \/ m.type \in FrameTypes
    \/ m.type = "error" /\ m.message \in {"ZeroDivisionError", "Analysis service not initialized"}
\* Every configure was handled before the first frame of the session.
FixedFromStart(s) ==
    \A i \in Idx(s) :
        TypeAt(s, i) = "configuration_acknowledged" =>
            \A j \in 1..(i - 1) : ~IsFrameEvent(sent[s][j])
SkippedFrames(s) ==
    { sent[s][i].frame_number : i \in { j \in Idx(s) : TypeAt(s, j) = "frame_received" } }
NumOfType(s, ty) == Cardinality({ i \in Idx(s) : TypeAt(s, i) = ty })
IsFrame(m) == m.kind = "bytes" /\ m.body # "empty"

\* C1: with the sampling interval n >= 1 fixed from the start of the session,
\* after m (non-empty) binary frames exactly m div n frames have been handed to
\* the inference call, namely frames n, 2n, ...; every other frame got one
\* frame_received{analyzed: false} and was not submitted.
C1_SamplingCount ==
    \A s \in Sessions :
        (analysis_interval[s] >= 1 /\ FixedFromStart(s)) =>
            LET n == analysis_interval[s]
                m == received[s]
            IN  /\ Len(submitted[s]) = m \div n
                /\ \A i \in 1..Len(submitted[s]) : submitted[s][i] = i * n
                /\ SkippedFrames(s) = { k \in 1..m : k % n # 0 }
                /\ NumOfType(s, "frame_received") = m - (m \div n)
                /\ \A i \in Idx(s) :
                      TypeAt(s, i) = "frame_received" => ~sent[s][i].analyzed

C1_Witness ==
    \E s \in Sessions :
        /\ analysis_interval[s] = 2
        /\ FixedFromStart(s)
        /\ received[s] = 2
        /\ submitted[s] = << 2 >>
        /\ SkippedFrames(s) = {1}

\* C2: a configure message whose interval is 0 or negative is answered with an
\* error and leaves analysis_interval as it was.
C2_BadIntervalRejected ==
    [][ \A s \in Sessions :
          ( /\ receive(s)
            /\ Head(inbox[s]).kind = "text"
            /\ Head(inbox[s]).body = "configure"
            /\ Head(inbox[s]).has_interval
            /\ Head(inbox[s]).interval < 1 )
          => /\ analysis_interval'[s] = analysis_interval[s]
             /\ Len(sent'[s]) > Len(sent[s])
             /\ sent'[s][Len(sent'[s])].type = "error" ]_vars

\* C3: every inbound message handled by an open session is answered with at
\* least one message.
C3_EveryMessageAnswered ==
    [][ \A s \in Sessions :
          (receive(s) /\ linkUp[s]) => Len(sent'[s]) > Len(sent[s]) ]_vars

\* C4: a failed inference call for frame k is reported as analysis_error for
\* frame k and never as an analysis_result.
C4_FailureIsAnalysisError ==
    \A s \in Sessions : \A i \in Idx(s) :
        TypeAt(s, i) = "analysis_result" => sent[s][i].data.error = ""

\* C5: whatever failed before, the session stays open and a binary frame is
\* counted and answered with frame_received or processing.
C5_NextFrameStillSampled ==
    [][ \A s \in Sessions :
          (receive(s) /\ linkUp[s] /\ IsFrame(Head(inbox[s])))
          => /\ conn'[s] = "open"
             /\ frame_count'[s] = frame_count[s] + 1
             /\ Len(sent'[s]) = Len(sent[s]) + 1
             /\ sent'[s][Len(sent'[s])].type \in {"frame_received", "processing"}
             /\ sent'[s][Len(sent'[s])].frame_number = frame_count'[s] ]_vars

\* C6: the first message of a connection is connection_established when the
\* service was acquired and connection_error (status error, with a reason)
\* when it was not; in the second case the connection is closed, nothing else
\* is ever sent on it, and the other sessions are left as they were.
C6_FirstMessage ==
    \A s \in Sessions :
        /\ conn[s] = "connecting" => sent[s] = << >>
        /\ (conn[s] # "connecting" /\ analysis_service[s] # None) =>
              /\ Len(sent[s]) >= 1
              /\ sent[s][1].type = "connection_established"
              /\ sent[s][1].status = "ready"
        /\ (conn[s] # "connecting" /\ analysis_service[s] = None) =>
              /\ Len(sent[s]) = 1
              /\ sent[s][1].type = "connection_error"
              /\ sent[s][1].status = "error"
              /\ sent[s][1].message # ""
              /\ conn[s] = "closed"

C6_OthersUntouched ==
    \A s \in Sessions :
        (conn[s] = "connecting" /\ conn'[s] = "closed") =>
            /\ openai_analysis_service' = openai_analysis_service
            /\ \A t \in Sessions \ {s} :
                  /\ conn'[t] = conn[t]
                  /\ linkUp'[t] = linkUp[t]
                  /\ analysis_service'[t] = analysis_service[t]
                  /\ frame_count'[t] = frame_count[t]
                  /\ analysis_interval'[t] = analysis_interval[t]
                  /\ inbox'[t] = inbox[t]
                  /\ inflight'[t] = inflight[t]
                  /\ sent'[t] = sent[t]

C6_ConnectOutcome == [] C6_FirstMessage /\ [][C6_OthersUntouched]_vars

C6_Witness ==
    \E s, t \in Sessions :
        /\ conn[s] = "closed" /\ analysis_service[s] = None
        /\ sent[s] = << ConnectionError("OPENAI_API_KEY not found") >>
        /\ conn[t] = "open" /\ linkUp[t]
        /\ sent[t][1] = ConnectionEstablished
        /\ Len(sent[t]) > 1

\* C7: a session never has more than one inference call in flight; a frame
\* that arrives during the call waits in the inbox.
C7_OneInFlight ==
    \A s \in Sessions : Cardinality(inflight[s]) <= 1

C7_Witness ==
    \E s \in Sessions :
        /\ inflight[s] # {}
        /\ inbox[s] # << >>
        /\ IsFrame(Head(inbox[s]))

\* C8: each processing message for frame k is directly followed by the one
\* completion message of frame k (or the call for k is still outstanding and
\* processing is the last message sent); completions occur nowhere else, so
\* results come in the order of the frames.
C8_CompletionFollowsProcessing ==
    \A s \in Sessions :
        /\ \A i \in Idx(s) :
              TypeAt(s, i) = "processing" =>
                 IF i = Len(sent[s])
                 THEN inflight[s] = { sent[s][i].frame_number }
                 ELSE /\ TypeAt(s, i + 1) \in CompletionTypes
                      /\ sent[s][i + 1].frame_number = sent[s][i].frame_number
        /\ \A i \in Idx(s) :
              TypeAt(s, i) \in CompletionTypes =>
                 /\ i > 1
                 /\ TypeAt(s, i - 1) = "processing"
        /\ \A i, j \in Idx(s) :
              (i < j /\ TypeAt(s, i) \in FrameTypes /\ TypeAt(s, j) \in FrameTypes) =>
                 sent[s][i].frame_number <= sent[s][j].frame_number
        /\ (inflight[s] # {} =>
              /\ sent[s] # << >>
              /\ TypeAt(s, Len(sent[s])) = "processing")

C8_Witness ==
    \E s \in Sessions :
        /\ inbox[s] # << >>
        /\ \E i, j \in Idx(s) :
              /\ i < j
              /\ TypeAt(s, i) = "analysis_result"
              /\ TypeAt(s, j) = "processing"
              /\ sent[s][i].frame_number < sent[s][j].frame_number
              /\ inflight[s] = { sent[s][j].frame_number }

\* C9: when the transport goes down while an inference call is outstanding
\* (the last message sent is the call's processing message), the session
\* sends nothing more on that connection.
C9_SilentAfterDisconnect ==
    \A s \in Sessions :
        ( /\ State(s) = "Closed"
          /\ sentAtClose[s] >= 1
          /\ sent[s][sentAtClose[s]].type = "processing" )
        => Len(sent[s]) = sentAtClose[s]

\* C10: a session that is waiting for an inference call eventually stops
\* waiting, also when the call never returns.
C10_ProcessingEnds ==
    \A s \in Sessions : (inflight[s] # {}) ~> (inflight[s] = {})

\* ------------------------------------------------------------------ C11
\* The content holds no JSON document: the strict parse fails, and either a
\* brace is missing or the text from the first opening brace to the last
\* closing brace does not parse either.
Unparseable(c) ==
    /\ ~json_loads(c).ok
    /\ \/ find(c, "{") = -1
       \/ rfind(c, "}") = -1
       \/ ~json_loads(brace_slice(c)).ok

\* C11: every content that cannot be parsed (empty, truncated, prose without
\* braces, or braces around something that is not JSON) normalizes to the one
\* fallback result: level unknown, confidence 0.0, the parse-failure
\* observation and the manual-review action.
C11_UnparseableGivesFallback ==
    (parsed_by = "openai" /\ Unparseable(content)) => norm_result = FallbackResult

\* ------------------------------------------------------------------ C12
Levels == {"awake", "mildly_drowsy", "moderately_drowsy", "highly_drowsy", "unknown"}

\* C12: every result delivered in an analysis_result message has a confidence
\* in [0,1] (0..100 percent) and a level among the five enumerated values.
C12_DeliveredResultInSchema ==
    \A s \in Sessions : \A i \in Idx(s) :
        TypeAt(s, i) = "analysis_result" =>
            /\ sent[s][i].data.confidence \in 0..100
            /\ sent[s][i].data.drowsiness_level \in Levels

\* ------------------------------------------------------------------ C18
\* A JSON object between an opening fence (with or without the json tag, then
\* optional whitespace) and a closing fence (after optional whitespace).
FenceOpenings == { Fence, Fence \o Tag, Fence \o Tag \o << " " >> }
FenceClosings == { Fence, << " " >> \o Fence }
Wrapped(c, b) ==
    \E p \in FenceOpenings, q \in FenceClosings : c = p \o << "{", b, "}" >> \o q

\* C18: a JSON object wrapped in fence markers, with or without the json
\* tag, normalizes in either service to what the bare object normalizes to.
C18_FenceInsensitive ==
    \A b \in Bodies :
        Wrapped(content, b) =>
            /\ parsed_by = "openai" => norm_result = normalize_openai(<< "{", b, "}" >>)
            /\ parsed_by = "groq" => norm_result = normalize_groq(<< "{", b, "}" >>)
            /\ parsed_by # "none" => norm_result = parse_body(b)

C18_Witness ==
    /\ parsed_by = "openai"
    /\ content = Fence \o Tag \o << " ", "{", "B_ok", "}", " " >> \o Fence
    /\ norm_result = parse_body("B_ok")

\* ------------------------------------------------------------------ C13
\* The consumer of session s takes message m off its queue in this step.
Handles(s, m) ==
    /\ inbox[s] # << >>
    /\ Head(inbox[s]) = m
    /\ inbox'[s] = Tail(inbox[s])

MalformedText == [kind |-> "text", body |-> "garbage", has_interval |-> FALSE, interval |-> 0]

Configure(k) == [kind |-> "text", body |-> "configure", has_interval |-> TRUE, interval |-> k]

\* The interval acknowledged last before position i of what s was sent (1, the
\* initial interval, when none was).
AckedBefore(s, i) ==
    LET acks == { j \in 1..(i - 1) : TypeAt(s, j) = "configuration_acknowledged" }
    IN  IF acks = {} THEN 1
        ELSE sent[s][CHOOSE j \in acks : \A l \in acks : l <= j].interval

\* Every frame answered while an interval k >= 1 was in force was sampled by k.
C14_IntervalGoverns ==
    \A s \in Sessions : \A i \in Idx(s) :
        (TypeAt(s, i) \in {"frame_received", "processing"} /\ AckedBefore(s, i) >= 1) =>
            (TypeAt(s, i) = "processing"
                <=> sent[s][i].frame_number % AckedBefore(s, i) = 0)

\* Handling configure with interval k >= 1 sets the interval to k, sends the
\* acknowledgement carrying k and nothing else, and leaves the counter alone.
C14_ConfigureStep ==
    \A s \in Sessions : \A k \in 1..MaxInterval :
        Handles(s, Configure(k)) =>
            /\ analysis_interval'[s] = k
            /\ sent'[s] = Append(sent[s], ConfigurationAcknowledged(k))
            /\ frame_count'[s] = frame_count[s]

\* C14: configure with interval k >= 1 sets the sampling interval to k, is
\* acknowledged with interval k, leaves the frame counter unchanged, and the
\* new interval decides the sampling of every frame received afterwards.
C14_ConfigureTakesEffect == [] C14_IntervalGoverns /\ [][C14_ConfigureStep]_vars

\* A frame was analysed under interval 1, then interval 2 was set, and the
\* next frame (number 2) was sampled by it.
C14_Witness ==
    \E s \in Sessions :
        /\ analysis_interval[s] = 2
        /\ frame_count[s] = 2
        /\ Len(sent[s]) >= 5
        /\ sent[s][2] = Processing(1)
        /\ sent[s][4] = ConfigurationAcknowledged(2)
        /\ sent[s][5] = Processing(2)

\* ------------------------------------------------------------------ C15
\* The session connected, its first message was configure with interval 2,
\* and it sent no other configure and nothing that is answered by an error.
TraceScenario(s) ==
    /\ Len(sent[s]) >= 2
    /\ sent[s][1] = ConnectionEstablished
    /\ sent[s][2] = ConfigurationAcknowledged(2)
    /\ NumOfType(s, "configuration_acknowledged") = 1
    /\ NumOfType(s, "error") = 0

TracePrefix == << ConnectionEstablished, ConfigurationAcknowledged(2),
                  FrameReceived(1), Processing(2) >>

\* C15: in that scenario the first frame is answered by frame_received{1,
\* analyzed false}, the second by processing{2} and then, the analysis
\* returning, by analysis_result{2} carrying its result, with nothing else in
\* between.
C15_EndToEndTrace ==
    \A s \in Sessions :
        TraceScenario(s) =>
            /\ received[s] = 0 => Len(sent[s]) = 2
            /\ received[s] = 1 => sent[s] = SubSeq(TracePrefix, 1, 3)
            /\ received[s] >= 2 =>
                  /\ Len(sent[s]) >= 4
                  /\ SubSeq(sent[s], 1, 4) = TracePrefix
                  /\ Len(sent[s]) = 4 <=> (received[s] = 2 /\ inflight[s] = {2})
                  /\ Len(sent[s]) >= 5 =>
                        sent[s][5] = AnalysisResult(2, sent[s][5].data)

C15_Witness ==
    \E s \in Sessions :
        /\ received[s] = 2
        /\ sent[s] = Append(TracePrefix, AnalysisResult(2, ParsedResult))

\* ------------------------------------------------------------------ C16
\* The message that answers the receipt of a frame: frame_received,
\* processing, or the error raised by the sampling test.
IsReceipt(m) ==
    \/ m.type \in {"frame_received", "processing"}
    \/ m.type = "error" /\ m.message = "ZeroDivisionError"

\* The number of frames received up to and including the one answered at i.
SeqNoAt(s, i) == Cardinality({ j \in 1..i : IsReceipt(sent[s][j]) })

C16_FrameNumbers ==
    \A s \in Sessions :
        /\ frame_count[s] = SeqNoAt(s, Len(sent[s]))
        /\ \A i \in Idx(s) :
              /\ TypeAt(s, i) \in {"frame_received", "processing"} =>
                    sent[s][i].frame_number = SeqNoAt(s, i)
              /\ TypeAt(s, i) \in CompletionTypes =>
                    /\ i > 1
                    /\ sent[s][i - 1] = Processing(sent[s][i].frame_number)

C16_CounterStep ==
    \A s \in Sessions :
        IF \E m \in BinaryMessages : IsFrame(m) /\ Handles(s, m)
        THEN frame_count'[s] = frame_count[s] + 1
        ELSE frame_count'[s] = frame_count[s]

\* C16: the frame counter starts at 0, goes up by exactly 1 when a binary
\* frame is handled and changes on nothing else, and every frame_received,
\* processing, analysis_result and analysis_error message carries the number
\* its frame was given at receipt.
C16_CounterIsSequenceNumber ==
    /\ \A s \in Sessions : frame_count[s] = 0
    /\ [] C16_FrameNumbers
    /\ [][C16_CounterStep]_vars

\* Two frames analysed with malformed text between them: the second is
\* number 2.
C16_Witness ==
    \E s \in Sessions :
        /\ frame_count[s] = 2
        /\ Len(sent[s]) = 5
        /\ sent[s][3].type = "analysis_result"
        /\ sent[s][4] = ErrorMessage("Invalid JSON format")
        /\ sent[s][5] = Processing(2)

\* ------------------------------------------------------------------ C17
\* What belongs to session s: its attributes, its state and what it was sent.
SessionView(s) ==
    << frame_count[s], analysis_interval[s], last_analysis_result[s], sent[s],
       analysis_service[s], conn[s], inflight[s], stalled[s] >>

\* Something happens on session r in this step: it connects, a message or a
\* close reaches it, it handles one, or its analysis returns.
Acts(r) ==
    \/ conn'[r] # conn[r]
    \/ linkUp'[r] # linkUp[r]
    \/ inbox'[r] # inbox[r]
    \/ inflight'[r] # inflight[r]

C17_IndependentStep ==
    /\ \A r \in Sessions : Acts(r) =>
          \A s \in Sessions \ {r} : SessionView(s)' = SessionView(s) /\ inbox'[s] = inbox[s]
    /\ openai_analysis_service # None => openai_analysis_service' = openai_analysis_service

\* C17: whatever happens on one session (configure, frame, failure,
\* disconnect) leaves every other session's counter, interval, last result
\* and received messages as they were; the sessions share only the inference
\* client, which nothing changes once it exists.
C17_SessionsIndependent ==
    /\ [] (\A s \in Sessions : analysis_service[s] \in {None, openai_analysis_service})
    /\ [][C17_IndependentStep]_vars

\* Two live sessions that went different ways: one was reconfigured, the
\* other analysed a frame.
C17_Witness ==
    \E s, t \in Sessions :
        /\ analysis_interval[s] = 2 /\ frame_count[s] = 0
        /\ sent[s] = << ConnectionEstablished, ConfigurationAcknowledged(2) >>
        /\ analysis_interval[t] = 1 /\ frame_count[t] = 1
        /\ last_analysis_result[t] = ParsedResult
        /\ last_analysis_result[s] = NoResult
        /\ analysis_service[s] = analysis_service[t]

\* ------------------------------------------------------------------ C19
C19_SingletonState ==
    /\ constructions <= 1
    /\ openai_analysis_service = None <=> constructions = 0
    /\ \A s \in Sessions :
          conn[s] = "open" =>
              analysis_service[s] # None /\ analysis_service[s] = openai_analysis_service

\* A connect made while the singleton is unset either constructs it or fails
\* and leaves it unset; one made while it is set reuses it and cannot fail.
C19_ConnectStep ==
    \A s \in Sessions :
        (conn[s] = "connecting" /\ conn'[s] # "connecting") =>
            IF openai_analysis_service = None
            THEN \/ /\ conn'[s] = "open"
                    /\ openai_analysis_service' # None
                    /\ constructions' = constructions + 1
                 \/ /\ conn'[s] = "closed"
                    /\ openai_analysis_service' = None
                    /\ constructions' = constructions
            ELSE /\ conn'[s] = "open"
                 /\ openai_analysis_service' = openai_analysis_service
                 /\ constructions' = constructions

\* C19: the inference client is constructed at most once; once it exists every
\* later call returns it without constructing; a call that fails leaves it
\* unset, and the next connection constructs again.
C19_SingletonOnce == [] C19_SingletonState /\ [][C19_ConnectStep]_vars

\* A failed first connection, then a later one that built the instance it
\* holds.
C19_Witness ==
    /\ constructions = 1
    /\ \E s \in Sessions :
          /\ conn[s] = "closed" /\ analysis_service[s] = None
          /\ sent[s] = << ConnectionError("OPENAI_API_KEY not found") >>
          /\ \E t \in Sessions :
                /\ s < t
                /\ conn[t] = "open"
                /\ analysis_service[t] = openai_analysis_service
                /\ openai_analysis_service # None

\* ------------------------------------------------------------------ C20
ConfigureNoInterval ==
    [kind |-> "text", body |-> "configure", has_interval |-> FALSE, interval |-> 0]

C20_DefaultStep ==
    \A s \in Sessions :
        /\ Handles(s, ConfigureNoInterval) =>
              /\ analysis_interval'[s] = 1
              /\ sent'[s] = Append(sent[s], ConfigurationAcknowledged(1))
              /\ frame_count'[s] = frame_count[s]
        /\ (analysis_interval[s] = 1 /\ \E m \in BinaryMessages : IsFrame(m) /\ Handles(s, m)) =>
              /\ sent'[s] = Append(sent[s], Processing(frame_count[s] + 1))
              /\ submitted'[s] = Append(submitted[s], frame_count[s] + 1)
              /\ inflight'[s] = {frame_count[s] + 1}

\* C20: configure without an interval field sets the sampling interval to 1
\* whatever it was, is acknowledged with interval 1, and while the interval is
\* 1 every binary frame is submitted for analysis.
C20_ConfigureDefaultsToOne == [][C20_DefaultStep]_vars

\* Interval 2 was set, then reset by a configure, and the first frame after
\* it (number 1, which interval 2 would have skipped) was submitted.
C20_Witness ==
    \E s \in Sessions :
        /\ analysis_interval[s] = 1
        /\ sent[s] = << ConnectionEstablished, ConfigurationAcknowledged(2),
                        ConfigurationAcknowledged(1), Processing(1) >>
        /\ submitted[s] = << 1 >>

====
